---- MODULE Spec2Model ----
(***************************************************************************)
(* Model of src/server.js: an Express server with two in-memory resource   *)
(* stores (customers, products), three prom-client counters, one duration  *)
(* histogram and the middleware chain in front of the route handlers.      *)
(*                                                                         *)
(* Node runs every callback to completion, so one action is one turn of    *)
(* the event loop: the arrival of a body-less GET together with the whole  *)
(* middleware chain and its route handler; the arrival of a POST (headers  *)
(* only); the chain and handler of a POST once bodyParser has read its     *)
(* body; the completion of a response ('finish', then 'close'); an abort  *)
(* of the connection ('close' with no 'finish').  Several requests are in  *)
(* flight at once and their turns interleave freely.                       *)
(*                                                                         *)
(* promBundle's own instruments (http_request_duration_seconds, up) and    *)
(* the default process metrics are not modelled: no handler of server.js   *)
(* reads or writes them.  The catch branches of the handlers (lines 97-100,*)
(* 114-117, 137-140, 154-157) are not modelled: nothing in their try       *)
(* blocks throws for a body produced by bodyParser.                        *)
(***************************************************************************)
EXTENDS Integers, Sequences, FiniteSets, TLC

\* ------------------------------------------------------------------ bounds

\* Number of requests the clients send in one behaviour.
MaxRequests == 2

\* ------------------------------------------------------------- JSON values

\* A JavaScript value: a number, a string (a sequence of one-character
\* strings) or a Date.  Every value carries all three fields, so that two
\* values of different types are unequal and === is plain equality.
Num(n) == [t |-> "number", n |-> n, s |-> <<>>]

Str(s) == [t |-> "string", n |-> 0, s |-> s]

Date(ms) == [t |-> "date", n |-> ms, s |-> <<>>]

\* parseInt's result when no digit was read.
NaN == [t |-> "NaN", n |-> 0, s |-> <<>>]

\* JavaScript ===: NaN equals nothing, itself included.
StrictEquals(a, b) == a.t # "NaN" /\ b.t # "NaN" /\ a = b

\* The object {} : req.body of a request without a body.
EmptyObject == [k \in {} |-> Num(0)]

\* { ...a, ...b }: b's properties override a's.
Spread(a, b) == [k \in DOMAIN a \cup DOMAIN b |-> IF k \in DOMAIN b THEN b[k] ELSE a[k]]

\* ---------------------------------------------------------------- parseInt

Whitespace == {" "}

\* The value of a character as a digit; 36 for a character that is no digit.
DigitValue(c) ==
  CASE c = "0" -> 0 [] c = "1" -> 1 [] c = "2" -> 2 [] c = "3" -> 3
    [] c = "4" -> 4 [] c = "5" -> 5 [] c = "6" -> 6 [] c = "7" -> 7
    [] c = "8" -> 8 [] c = "9" -> 9
    [] c \in {"a", "A"} -> 10 [] c \in {"b", "B"} -> 11 [] c \in {"c", "C"} -> 12
    [] c \in {"d", "D"} -> 13 [] c \in {"e", "E"} -> 14 [] c \in {"f", "F"} -> 15
    [] OTHER -> 36

RECURSIVE StripLeadingWhitespace(_)
StripLeadingWhitespace(s) ==
  IF s # <<>> /\ Head(s) \in Whitespace THEN StripLeadingWhitespace(Tail(s)) ELSE s

\* The number written by the longest prefix of s made of digits of the radix.
RECURSIVE ReadDigits(_, _, _)
ReadDigits(s, radix, acc) ==
  IF s = <<>> \/ DigitValue(Head(s)) >= radix
  THEN acc
  ELSE ReadDigits(Tail(s), radix, acc * radix + DigitValue(Head(s)))

\* parseInt(string) with no radix argument.  A string is a sequence of
\* one-character strings.
ParseInt(str) ==
  LET s1 == StripLeadingWhitespace(str)
      signed == s1 # <<>> /\ Head(s1) \in {"+", "-"}
      sign == IF s1 # <<>> /\ Head(s1) = "-" THEN -1 ELSE 1
      s2 == IF signed THEN Tail(s1) ELSE s1
      hex == Len(s2) >= 2 /\ s2[1] = "0" /\ s2[2] \in {"x", "X"}
      radix == IF hex THEN 16 ELSE 10
      s3 == IF hex THEN SubSeq(s2, 3, Len(s2)) ELSE s2
  IN IF s3 = <<>> \/ DigitValue(Head(s3)) >= radix
     THEN NaN
     ELSE Num(sign * ReadDigits(s3, radix, 0))

\* ------------------------------------------------------------------- state

VARIABLES
  customers,                        \* the customers array
  products,                         \* the products array
  customerOperationsCounter,        \* customer_operations_total, by operation
  productOperationsCounter,         \* product_operations_total, by operation
  errorCounter,                     \* api_error_total, by {route, method}
  httpRequestDurationMicroseconds,  \* http_request_duration_ms, by label tuple
  reqs,                             \* the requests received so far, in order
  now                               \* the wall clock, Date.now()

vars == <<customers, products, customerOperationsCounter, productOperationsCounter,
          errorCounter, httpRequestDurationMicroseconds, reqs, now>>

Operations == {"get_all", "create", "get_by_id"}

\* The label pairs the handlers increment api_error_total under.
ErrorLabels ==
  { [route |-> "/customers", method |-> "POST"],
    [route |-> "/customers/:id", method |-> "GET"],
    [route |-> "/products", method |-> "POST"],
    [route |-> "/products/:id", method |-> "GET"] }

\* Upper bounds of the histogram's buckets.
buckets == <<1, 5, 15, 50, 100, 200, 500, 1000, 2000>>

\* A path: "/" is root "" with no id, "/customers" root "customers" with no
\* id, "/customers/1a" root "customers" with id <<"1", "a">>.
Path(root, id) == [root |-> root, id |-> id]

\* ------------------------------------------------------------------ inputs

\* JSON bodies the clients post.
Bodies ==
  { [name |-> Str(<<"A">>)],
    [id |-> Num(1), name |-> Str(<<"B">>)],
    [id |-> Str(<<"1">>), createdAt |-> Str(<<"n", "e", "v", "e", "r">>)] }

\* The :id path parameters the clients ask for.
ParamStrings == { <<"1">>, <<"1", "a">>, <<"a">> }

\* The readings of the wall clock, Date.now() and new Date().
Times == 0..1

\* What a client sends with a POST: a JSON body, or text that is no JSON.
PostInputs ==
  { [body |-> b, malformed |-> FALSE] : b \in Bodies }
    \cup { [body |-> EmptyObject, malformed |-> TRUE] }

\* --------------------------------------------------------- requests, bodies

NoBody == [kind |-> "none", text |-> "", data |-> <<>>]

\* res.json(record)
RecordBody(rec) == [kind |-> "record", text |-> "", data |-> <<rec>>]

\* res.json(array)
ListBody(store) == [kind |-> "list", text |-> "", data |-> store]

\* res.json({ message: text })
MessageBody(text) == [kind |-> "message", text |-> text, data |-> <<>>]

\* A request as the server first sees it.  res.statusCode is 200 until a
\* handler sets it; no 'finish' listener is registered yet.
NewRequest(method, path, body, malformed) ==
  [ method |-> method, path |-> path, body |-> body, malformed |-> malformed,
    phase |-> "reading", statusCode |-> 200, resp |-> NoBody,
    timed |-> FALSE, start |-> 0 ]

\* res.status(code)
Status(req, code) == [req EXCEPT !.statusCode = code]

\* res.json(body) and the other ways of ending a response: the body is
\* written and the response ended; 'finish' follows in a later turn.
Send(req, body) == [req EXCEPT !.resp = body, !.phase = "sent"]

\* ------------------------------------------------------------- instruments

\* A lost update: the series is set to 1 instead of incremented.
IncFromZero(counter, labels) == [counter EXCEPT ![labels] = 1]

\* counter.inc() that takes no notice of the labels: every series moves.
IncEverySeries(counter, labels) == [l \in DOMAIN counter |-> counter[l] + 1]

\* counter.inc(labels)
Inc(counter, labels) == [counter EXCEPT ![labels] = @ + 1]

\* The first bucket a value falls in; Len(buckets) + 1 stands for +Inf.
BucketOf(value) ==
  IF \E i \in 1..Len(buckets) : value <= buckets[i]
  THEN CHOOSE i \in 1..Len(buckets) :
         value <= buckets[i] /\ \A j \in 1..(i - 1) : value > buckets[j]
  ELSE Len(buckets) + 1

EmptySeries == [count |-> 0, sum |-> 0, bucketValues |-> [i \in 1..(Len(buckets) + 1) |-> 0]]

SeriesOf(hist, labels) == IF labels \in DOMAIN hist THEN hist[labels] ELSE EmptySeries

\* histogram.labels(...).observe(value): the series of the label tuple is
\* created on first use.
Observe(hist, labels, value) ==
  LET old == SeriesOf(hist, labels)
      new == [ count |-> old.count + 1, sum |-> old.sum + value,
               bucketValues |-> [old.bucketValues EXCEPT ![BucketOf(value)] = @ + 1] ]
  IN [l \in DOMAIN hist \cup {labels} |-> IF l = labels THEN new ELSE hist[l]]

\* The label tuple with the status code as it is when the middleware runs,
\* before any handler has set it.
LabelsAtNext(req) == [method |-> req.method, route |-> req.path, status_code |-> 200]

\* The label tuple of line 69, read when the listener runs.
Labels(req) == [method |-> req.method, route |-> req.path, status_code |-> req.statusCode]

\* A listener registered for both completion events.
ListenedFinishAndClose == {"finish", "close"}

\* The events of the response the duration middleware listens to (line 66).
ListenedEvents == {"finish"}

\* Lines 63-74 up to next(): the start time is taken and the listener
\* registered.
DurationMiddleware(req, t) == [req EXCEPT !.timed = TRUE, !.start = t]

\* ----------------------------------------------------------- store helpers

\* Lines 88-92 and 128-132: { id: store.length + 1, ...req.body, createdAt: new Date() }
NewRecord(store, body, t) ==
  Spread(Spread([id |-> Num(Len(store) + 1)], body), [createdAt |-> Date(t)])

\* Lines 105 and 145: store.find(c => c.id === parseInt(param)), as the index
\* of the record found, 0 when there is none.
Find(store, param) ==
  LET hits == {i \in 1..Len(store) : StrictEquals(store[i]["id"], ParseInt(param))}
  IN IF hits = {} THEN 0 ELSE CHOOSE i \in hits : \A j \in hits : i <= j

\* store.unshift(record): the record is put first.
Unshift(store, rec) == <<rec>> \o store

\* Lines 94 and 134: store.push(record)
Push(store, rec) == Append(store, rec)

\* The labels of a miss counted under the POST route of the resource.
NotFoundLabelsOfPost(root) ==
  [route |-> IF root = "customers" THEN "/customers" ELSE "/products", method |-> "POST"]

\* Lines 108 and 148: the labels api_error_total is incremented under when
\* the lookup finds nothing.
NotFoundLabels(root) ==
  [ route |-> IF root = "customers" THEN "/customers/:id" ELSE "/products/:id",
    method |-> "GET" ]

\* ---------------------------------------------------------------- actions

Init ==
  /\ customers = <<>>
  /\ products = <<>>
  /\ customerOperationsCounter = [o \in Operations |-> 0]
  /\ productOperationsCounter = [o \in Operations |-> 0]
  /\ errorCounter = [l \in ErrorLabels |-> 0]
  /\ httpRequestDurationMicroseconds = [l \in {} |-> EmptySeries]
  /\ reqs = <<>>
  /\ now = 0

\* A GET arrives with no body: bodyParser passes it on at once and the
\* duration middleware runs in the same turn as the route handler.
ArrivedGet(path) ==
  DurationMiddleware(NewRequest("GET", path, EmptyObject, FALSE), now)

\* app.get('/'), lines 161-172
GetRoot ==
  /\ Len(reqs) < MaxRequests
  /\ reqs' = Append(reqs, Send(ArrivedGet(Path("", <<>>)),
                               [kind |-> "directory", text |-> "API Server is running",
                                data |-> <<>>]))
  /\ UNCHANGED <<customers, products, customerOperationsCounter,
                 productOperationsCounter, errorCounter,
                 httpRequestDurationMicroseconds, now>>

\* promBundle answers GET /metrics itself (lines 47-57) and does not call
\* next(): the duration middleware registered after it never sees the request.
GetMetrics ==
  /\ Len(reqs) < MaxRequests
  /\ reqs' = Append(reqs, Send(NewRequest("GET", Path("metrics", <<>>), EmptyObject, FALSE),
                               [kind |-> "metrics", text |-> "", data |-> <<>>]))
  /\ UNCHANGED <<customers, products, customerOperationsCounter,
                 productOperationsCounter, errorCounter,
                 httpRequestDurationMicroseconds, now>>

\* A GET of a path no route matches: it passes the duration middleware and
\* Express answers 404 itself.
GetUnmatched ==
  /\ Len(reqs) < MaxRequests
  /\ reqs' = Append(reqs, Send(Status(ArrivedGet(Path("other", <<>>)), 404),
                               [kind |-> "html", text |-> "Cannot GET /other",
                                data |-> <<>>]))
  /\ UNCHANGED <<customers, products, customerOperationsCounter,
                 productOperationsCounter, errorCounter,
                 httpRequestDurationMicroseconds, now>>

\* app.get('/customers'), lines 81-84
GetCustomers ==
  /\ Len(reqs) < MaxRequests
  /\ customerOperationsCounter' = Inc(customerOperationsCounter, "get_all")
  /\ reqs' = Append(reqs, Send(ArrivedGet(Path("customers", <<>>)), ListBody(customers)))
  /\ UNCHANGED <<customers, products, productOperationsCounter, errorCounter,
                 httpRequestDurationMicroseconds, now>>

\* app.get('/customers/:id'), lines 103-118
GetCustomerById ==
  /\ Len(reqs) < MaxRequests
  /\ \E param \in ParamStrings :
       LET req == ArrivedGet(Path("customers", param))
           customer == Find(customers, param)
       IN IF customer = 0
          THEN /\ errorCounter' =
                    Inc(errorCounter, NotFoundLabels("customers"))
               /\ reqs' = Append(reqs, Send(Status(req, 404),
                                            MessageBody("Customer not found")))
               /\ UNCHANGED customerOperationsCounter
          ELSE /\ customerOperationsCounter' = Inc(customerOperationsCounter, "get_by_id")
               /\ reqs' = Append(reqs, Send(req, RecordBody(customers[customer])))
               /\ UNCHANGED errorCounter
  /\ UNCHANGED <<customers, products, productOperationsCounter,
                 httpRequestDurationMicroseconds, now>>

\* app.get('/products'), lines 121-124
GetProducts ==
  /\ Len(reqs) < MaxRequests
  /\ productOperationsCounter' = Inc(productOperationsCounter, "get_all")
  /\ reqs' = Append(reqs, Send(ArrivedGet(Path("products", <<>>)), ListBody(products)))
  /\ UNCHANGED <<customers, products, customerOperationsCounter, errorCounter,
                 httpRequestDurationMicroseconds, now>>

\* app.get('/products/:id'), lines 143-158
GetProductById ==
  /\ Len(reqs) < MaxRequests
  /\ \E param \in ParamStrings :
       LET req == ArrivedGet(Path("products", param))
           product == Find(products, param)
       IN IF product = 0
          THEN /\ errorCounter' =
                    Inc(errorCounter, NotFoundLabels("products"))
               /\ reqs' = Append(reqs, Send(Status(req, 404),
                                            MessageBody("Product not found")))
               /\ UNCHANGED productOperationsCounter
          ELSE /\ productOperationsCounter' = Inc(productOperationsCounter, "get_by_id")
               /\ reqs' = Append(reqs, Send(req, RecordBody(products[product])))
               /\ UNCHANGED errorCounter
  /\ UNCHANGED <<customers, products, customerOperationsCounter,
                 httpRequestDurationMicroseconds, now>>

\* The headers of a POST arrive; bodyParser.json (line 59) starts reading
\* the body, which ends in a later turn.
ReceivePost ==
  /\ Len(reqs) < MaxRequests
  /\ \E root \in {"customers", "products"}, in \in PostInputs :
       reqs' = Append(reqs, NewRequest("POST", Path(root, <<>>), in.body, in.malformed))
  /\ UNCHANGED <<customers, products, customerOperationsCounter,
                 productOperationsCounter, errorCounter,
                 httpRequestDurationMicroseconds, now>>

\* The body is read and is no JSON: bodyParser.json passes an error on,
\* Express skips every middleware and route after it and answers 400.
BodyParseError(r) ==
  /\ reqs[r].phase = "reading"
  /\ reqs[r].malformed
  /\ reqs' = [reqs EXCEPT ![r] = Send(Status(@, 400),
                                      [kind |-> "html", text |-> "Bad Request",
                                       data |-> <<>>])]
  /\ UNCHANGED <<customers, products, customerOperationsCounter,
                 productOperationsCounter, errorCounter,
                 httpRequestDurationMicroseconds, now>>

\* The body is read; the duration middleware and app.post('/customers'),
\* lines 86-101, run in one turn.
PostCustomers(r) ==
  /\ reqs[r].phase = "reading"
  /\ ~reqs[r].malformed
  /\ reqs[r].path = Path("customers", <<>>)
  /\ LET req == DurationMiddleware(reqs[r], now)
         customer == NewRecord(customers, req.body, now)
     IN /\ customers' = Push(customers, customer)
        /\ customerOperationsCounter' = Inc(customerOperationsCounter, "create")
        /\ reqs' = [reqs EXCEPT ![r] = Send(Status(req, 201), RecordBody(customer))]
  /\ UNCHANGED <<products, productOperationsCounter, errorCounter,
                 httpRequestDurationMicroseconds, now>>

\* The body is read; the duration middleware and app.post('/products'),
\* lines 126-141, run in one turn.
PostProducts(r) ==
  /\ reqs[r].phase = "reading"
  /\ ~reqs[r].malformed
  /\ reqs[r].path = Path("products", <<>>)
  /\ LET req == DurationMiddleware(reqs[r], now)
         product == NewRecord(products, req.body, now)
     IN /\ products' = Push(products, product)
        /\ productOperationsCounter' = Inc(productOperationsCounter, "create")
        /\ reqs' = [reqs EXCEPT ![r] = Send(Status(req, 201), RecordBody(product))]
  /\ UNCHANGED <<customers, customerOperationsCounter, errorCounter,
                 httpRequestDurationMicroseconds, now>>

\* The response emits an event; the listener of lines 66-71 runs if the
\* duration middleware registered it for this request and for this event.
Emit(hist, req, event, t) ==
  IF req.timed /\ event \in ListenedEvents
  THEN Observe(hist, Labels(req), t - req.start)
  ELSE hist

\* The response has been handed to the operating system: the response
\* emits 'finish' and then 'close'.  Nothing of the program's state changes
\* between the two events, so they are one step.
Finish(r) ==
  /\ reqs[r].phase = "sent"
  /\ httpRequestDurationMicroseconds' =
       Emit(Emit(httpRequestDurationMicroseconds, reqs[r], "finish", now),
            reqs[r], "close", now)
  /\ reqs' = [reqs EXCEPT ![r].phase = "finished"]
  /\ UNCHANGED <<customers, products, customerOperationsCounter,
                 productOperationsCounter, errorCounter, now>>

\* The client drops the connection before the response is flushed: the
\* response emits 'close' and never 'finish'.
Abort(r) ==
  /\ reqs[r].phase = "sent"
  /\ httpRequestDurationMicroseconds' =
       Emit(httpRequestDurationMicroseconds, reqs[r], "close", now)
  /\ reqs' = [reqs EXCEPT ![r].phase = "aborted"]
  /\ UNCHANGED <<customers, products, customerOperationsCounter,
                 productOperationsCounter, errorCounter, now>>

\* Time passes.
Tick ==
  /\ now + 1 \in Times
  /\ now' = now + 1
  /\ UNCHANGED <<customers, products, customerOperationsCounter,
                 productOperationsCounter, errorCounter,
                 httpRequestDurationMicroseconds, reqs>>

Next ==
  \/ GetRoot
  \/ GetMetrics
  \/ GetUnmatched
  \/ GetCustomers
  \/ GetCustomerById
  \/ GetProducts
  \/ GetProductById
  \/ ReceivePost
  \/ \E r \in 1..Len(reqs) : BodyParseError(r)
  \/ \E r \in 1..Len(reqs) : PostCustomers(r)
  \/ \E r \in 1..Len(reqs) : PostProducts(r)
  \/ \E r \in 1..Len(reqs) : Finish(r)
  \/ \E r \in 1..Len(reqs) : Abort(r)
  \/ Tick

Spec == Init /\ [][Next]_vars

\* --------------------------------------------------- vocabulary of the claims

Requests == 1..Len(reqs)

Resources == {"customers", "products"}

Store(root) == IF root = "customers" THEN customers ELSE products

\* The response of the request has been sent (completed or not).
Answered(req) == req.phase # "reading"

\* A POST of the resource that was answered 201.
IsCreate(req, root) ==
  /\ req.method = "POST"
  /\ req.path = Path(root, <<>>)
  /\ Answered(req)
  /\ req.statusCode = 201

\* A GET of /<resource>/<id>.
IsGetById(req, root) ==
  req.method = "GET" /\ req.path.root = root /\ req.path.id # <<>>

\* The record a create or a lookup returned.
Returned(req) == req.resp.data[1]

Digits == <<"0", "1", "2", "3", "4", "5", "6", "7", "8", "9">>

\* A natural number as a client writes it in a URL.
RECURSIVE Decimal(_)
Decimal(n) ==
  IF n < 10 THEN <<Digits[n + 1]>> ELSE Decimal(n \div 10) \o <<Digits[(n % 10) + 1]>>

\* An id value as a client writes it in a URL.
IdText(v) == IF v.t = "string" THEN v.s ELSE Decimal(v.n)

\* This step receives a request and answers it in the same turn (a GET).
GetStep == Len(reqs') = Len(reqs) + 1 /\ reqs'[Len(reqs')].method = "GET"

\* The number of samples of the whole histogram.
RECURSIVE SumCounts(_, _)
SumCounts(hist, labels) ==
  IF labels = {} THEN 0
  ELSE LET l == CHOOSE x \in labels : TRUE
       IN hist[l].count + SumCounts(hist, labels \ {l})

TotalSamples == SumCounts(httpRequestDurationMicroseconds,
                          DOMAIN httpRequestDurationMicroseconds)

\* ------------------------------------------------------------------ claims

\* C1: the ids returned by the successful POSTs of a resource are 1..N in
\* call order, whatever the bodies; so the ids held in a store are 1, 2, ...
\* in insertion order (pairwise distinct, strictly increasing), and every id
\* a create returned is one of them.
C1_IdsAreOneToN ==
  \A root \in Resources :
    /\ \A i \in 1..Len(Store(root)) : Store(root)[i]["id"] = Num(i)
    /\ \A r \in Requests :
         IsCreate(reqs[r], root) =>
           Returned(reqs[r])["id"] \in {Num(i) : i \in 1..Len(Store(root))}

\* C2: once POST /customers with body B has returned id k, every later
\* GET /customers/k is answered 200 with the very record that POST returned,
\* which agrees with B on every field of B that the server does not assign.
C2_GetReturnsCreated ==
  [][ \A r \in Requests :
        ( /\ GetStep
          /\ IsCreate(reqs[r], "customers")
          /\ IsGetById(reqs'[Len(reqs')], "customers")
          /\ reqs'[Len(reqs')].path.id = IdText(Returned(reqs[r])["id"]) )
        => /\ reqs'[Len(reqs')].statusCode = 200
           /\ reqs'[Len(reqs')].resp = reqs[r].resp
           /\ \A k \in DOMAIN reqs[r].body \ {"id", "createdAt"} :
                Returned(reqs'[Len(reqs')])[k] = reqs[r].body[k] ]_vars

\* C3: GET /customers/:id and GET /products/:id with a path parameter that
\* is the id of no record of the store (a non-numeric one included) are
\* answered 404 with a message, and leave the stores and the get_by_id
\* counter as they were.
C3_UnassignedIdIs404 ==
  [][ \A root \in Resources :
        ( /\ GetStep
          /\ IsGetById(reqs'[Len(reqs')], root)
          /\ \A i \in 1..Len(Store(root)) :
               IdText(Store(root)[i]["id"]) # reqs'[Len(reqs')].path.id )
        => /\ reqs'[Len(reqs')].statusCode = 404
           /\ reqs'[Len(reqs')].resp.kind = "message"
           /\ customers' = customers
           /\ products' = products
           /\ customerOperationsCounter'["get_by_id"] = customerOperationsCounter["get_by_id"]
           /\ productOperationsCounter'["get_by_id"] = productOperationsCounter["get_by_id"]
    ]_vars

\* C4: a step in which a POST is answered 201 adds exactly 1 to the create
\* series of that resource's operation counter and changes no other series
\* of it, nor the other resource's operation counter, nor api_error_total.
C4_CreateCountsOnce ==
  [][ \A r \in Requests :
        (reqs[r].phase = "reading" /\ reqs'[r].statusCode = 201)
        => /\ errorCounter' = errorCounter
           /\ IF reqs[r].path.root = "customers"
              THEN /\ customerOperationsCounter' =
                        [customerOperationsCounter EXCEPT !["create"] = @ + 1]
                   /\ productOperationsCounter' = productOperationsCounter
              ELSE /\ productOperationsCounter' =
                        [productOperationsCounter EXCEPT !["create"] = @ + 1]
                   /\ customerOperationsCounter' = customerOperationsCounter
    ]_vars

\* C4's case: a create of each resource has been answered 201.
C4_Witness ==
  /\ \E r \in Requests : IsCreate(reqs[r], "customers")
  /\ \E r \in Requests : IsCreate(reqs[r], "products")
  /\ customerOperationsCounter["create"] = 1
  /\ productOperationsCounter["create"] = 1

\* C5: for every request whose response has completed, whichever
\* middleware or handler answered it, http_request_duration_ms_count of its
\* (method, route, status_code) tuple is the number of completed requests
\* with that tuple.
C5_EveryRequestObservedOnce ==
  \A r \in Requests :
    reqs[r].phase = "finished" =>
      SeriesOf(httpRequestDurationMicroseconds, Labels(reqs[r])).count =
        Cardinality({q \in Requests :
                       reqs[q].phase = "finished" /\ Labels(reqs[q]) = Labels(reqs[r])})

\* The {route, method} labels of the route that answers a request.
RouteLabels(req) ==
  [ route |-> IF req.path.id = <<>>
              THEN (IF req.path.root = "customers" THEN "/customers" ELSE "/products")
              ELSE (IF req.path.root = "customers" THEN "/customers/:id"
                                                   ELSE "/products/:id"),
    method |-> req.method ]

\* The requests a route handler answered with an error of the taxonomy:
\* NotFound (404, the lookup missed) or InternalError (500).  Express's own
\* answer to a path no route matches is neither.
HandlerErrors ==
  {r \in Requests : /\ Answered(reqs[r])
                    /\ reqs[r].path.root \in Resources
                    /\ reqs[r].statusCode \in {404, 500}}

C7_AtMostOneObservation ==
  [][ \A r \in Requests :
        /\ (reqs[r].phase = "sent" /\ reqs'[r].phase = "finished")
             => TotalSamples' <= TotalSamples + 1
        /\ (reqs[r].phase = "sent" /\ reqs'[r].phase = "aborted")
             => httpRequestDurationMicroseconds' = httpRequestDurationMicroseconds
    ]_vars

\* C7's case: of two requests that passed the duration middleware one
\* completed and one was aborted, and the histogram holds one sample.
C7_Witness ==
  \E r, q \in Requests :
    /\ reqs[r].timed /\ reqs[r].phase = "finished"
    /\ reqs[q].timed /\ reqs[q].phase = "aborted"
    /\ TotalSamples = 1

\* C8: every series of the histogram carries the status code that was sent:
\* its sample count is the number of completed requests that passed the
\* duration middleware and were answered with that method, path and status.
C8_StatusLabelIsStatusSent ==
  \A l \in DOMAIN httpRequestDurationMicroseconds :
    httpRequestDurationMicroseconds[l].count =
      Cardinality({r \in Requests : /\ reqs[r].timed
                                    /\ reqs[r].phase = "finished"
                                    /\ reqs[r].method = l.method
                                    /\ reqs[r].path = l.route
                                    /\ reqs[r].statusCode = l.status_code})

\* C8's case: samples recorded for a 201 and for a 404, both set by the
\* handler after the middleware had called next().
C8_Witness ==
  \E l, m \in DOMAIN httpRequestDurationMicroseconds :
    l.status_code = 201 /\ m.status_code = 404

\* C9: in every step each store keeps its records in place; the customers
\* store changes only in a step that answers a POST /customers, and then by
\* one record appended (the products store likewise); a step that answers a
\* GET changes neither.
C9_StoresAppendOnly ==
  [][ /\ \A root \in Resources :
           /\ Len(Store(root)') >= Len(Store(root))
           /\ SubSeq(Store(root)', 1, Len(Store(root))) = Store(root)
           /\ Store(root)' # Store(root) =>
                /\ Len(Store(root)') = Len(Store(root)) + 1
                /\ \E r \in Requests :
                     /\ reqs[r].phase = "reading"
                     /\ reqs[r].method = "POST"
                     /\ reqs[r].path = Path(root, <<>>)
                     /\ reqs'[r].phase = "sent"
      /\ GetStep => (customers' = customers /\ products' = products)
    ]_vars

\* C9's case: a record was appended to a store that held one already.
C9_Witness ==
  Len(customers) = 2 /\ customers[1] # customers[2]

\* C10: whatever the interleaving of the requests in flight, the create
\* series of each operation counter, the length of the store and the number
\* of POSTs of the resource that were answered 201 are equal.
C10_NoLostUpdate ==
  \A root \in Resources :
    LET counter == IF root = "customers" THEN customerOperationsCounter
                                         ELSE productOperationsCounter
    IN /\ counter["create"] = Len(Store(root))
       /\ Len(Store(root)) = Cardinality({r \in Requests : IsCreate(reqs[r], root)})

\* C10's case: two creates of the same resource ran while both responses
\* were still in flight.
C10_Witness ==
  /\ Len(reqs) = 2
  /\ \A r \in Requests : IsCreate(reqs[r], "customers") /\ reqs[r].phase = "sent"
  /\ Len(customers) = 2

====
